---- MODULE Spec2Model ----
(***************************************************************************)
(* SplashManager (src/splash_manager.py): a splash screen with a minimum   *)
(* display time.  The presenter is driven by the host (show, finish,       *)
(* close, assignment of main_window) and by the single-shot timers it      *)
(* starts on the Qt event loop.  Time is in milliseconds.  A single-shot   *)
(* timer fires when its delay has elapsed: the clock does not pass a       *)
(* pending timer's due time before that timer has fired.                   *)
(***************************************************************************)
EXTENDS Integers, Sequences, FiniteSets

\* ---- bounds of the model ----
MaxTime == 3500
StartClock == 1000
TickStep == 500
MaxShows == 1
MaxFinishCalls == 2

\* ---- program constants ----
min_splash_time == 2000
poll_delay == 100

None == -1
NoWindow == "None"
Windows == {"w1"}

VARIABLES
    splash,             \* "none" (no surface), "hidden" or "visible"
    start_time,         \* None or the time recorded by show()
    main_window,        \* NoWindow or the window assigned by the host
    _finish_scheduled,  \* "absent" (attribute never set) or "True"
    timers,             \* pending single-shot timers, in creation order
    now,                \* the clock; it reads StartClock at construction
    pc,                 \* "idle", or "show_events" inside show()'s processEvents()
    \* ---- history of the run ----
    showCalls,          \* number of show() calls
    finishCalls,        \* number of finish() calls
    closeFirst,         \* close() was called after show() and before any finish()
    finishVisible,      \* finish() was called while the surface was visible
    closedByClose,      \* number of times close() closed a visible surface
    transitions,        \* number of splash.finish(w) transitions
    transitionAt,       \* clock of the last transition
    pollDoFinish,       \* number of _do_finish calls made by _check_and_finish
    lastDoFinish        \* the last _do_finish execution that a finish() call triggered

vars == <<splash, start_time, main_window, _finish_scheduled, timers, now, pc,
          showCalls, finishCalls, closeFirst, finishVisible,
          closedByClose, transitions, transitionAt, pollDoFinish,
          lastDoFinish>>

hist == <<showCalls, finishCalls, closeFirst, finishVisible,
          closedByClose, transitions, transitionAt, pollDoFinish,
          lastDoFinish>>

Max(a, b) == IF a >= b THEN a ELSE b
Min(a, b) == IF a <= b THEN a ELSE b

RemoveAt(s, i) == SubSeq(s, 1, i - 1) \o SubSeq(s, i + 1, Len(s))

\* start_time.msecsTo(currentDateTime())
msecsTo(t0, t1) == t1 - t0

\* QTimer.singleShot(delay, self._check_and_finish)
CheckTimer(delay) ==
    [cb |-> "check", due |-> now + delay, w |-> NoWindow, e |-> None, st |-> None]

\* QTimer.singleShot(delay, lambda: self._do_finish(main_window)); e and st
\* record the elapsed time and the start_time of the finish() call
LambdaTimer(delay, w) ==
    [cb |-> "lambda", due |-> now + delay, w |-> w,
     e |-> msecsTo(start_time, now), st |-> start_time]

NoDoFinish == [e |-> None, ran |-> None]

DueTimers == {i \in 1..Len(timers) : timers[i].due <= now}
NextDue(t) == \A i \in 1..Len(timers) : timers[i].due >= t

\* self.splash is truthy
splash_exists == splash # "none"
\* self.splash.isVisible()
isVisible == splash = "visible"

\* hasattr(self, '_finish_scheduled') and self._finish_scheduled
is_finish_scheduled == _finish_scheduled # "absent" /\ _finish_scheduled = "True"

\* variants of remaining: operands swapped; elapsed time not subtracted
remaining_swapped(elapsed) == Max(0, elapsed - min_splash_time)
remaining_whole(elapsed) == Max(0, min_splash_time)
\* remaining = max(0, self.min_splash_time - elapsed)
remaining(elapsed) == Max(0, min_splash_time - elapsed)

Init ==
    /\ splash = "hidden"
    /\ start_time = None
    /\ main_window = NoWindow
    /\ _finish_scheduled = "absent"
    /\ timers = <<>>
    /\ now = StartClock
    /\ pc = "idle"
    /\ showCalls = 0
    /\ finishCalls = 0
    /\ closeFirst = FALSE
    /\ finishVisible = FALSE
    /\ closedByClose = 0
    /\ transitions = 0
    /\ transitionAt = None
    /\ pollDoFinish = 0
    /\ lastDoFinish = NoDoFinish

\* variant of _do_finish without the isVisible() guard
_do_finish_unguarded(w) ==
    IF splash_exists
    THEN /\ splash' = "hidden"
         /\ transitions' = transitions + 1
         /\ transitionAt' = now
    ELSE UNCHANGED <<splash, transitions, transitionAt>>

\* _do_finish(main_window)
_do_finish(w) ==
    IF splash_exists /\ isVisible
    THEN /\ splash' = "hidden"
         /\ transitions' = transitions + 1
         /\ transitionAt' = now
    ELSE UNCHANGED <<splash, transitions, transitionAt>>

\* show(), up to and into app.processEvents()
show_begin ==
    /\ pc = "idle"
    /\ showCalls < MaxShows
    /\ now + min_splash_time + poll_delay <= MaxTime
    /\ showCalls' = showCalls + 1
    /\ IF splash_exists
       THEN /\ splash' = "visible"
            /\ pc' = "show_events"
       ELSE UNCHANGED <<splash, pc>>
    /\ UNCHANGED <<start_time, main_window, _finish_scheduled, timers, now,
                   finishCalls, closeFirst, finishVisible,
                   closedByClose, transitions, transitionAt,
                   pollDoFinish, lastDoFinish>>

\* show(), after processEvents() has handled every due timer
show_end ==
    /\ pc = "show_events"
    /\ DueTimers = {}
    /\ start_time' = now
    /\ timers' = Append(timers, CheckTimer(min_splash_time))
    /\ pc' = "idle"
    /\ UNCHANGED <<splash, main_window, _finish_scheduled, now>>
    /\ UNCHANGED hist

\* variant of _check_and_finish that gives up when main_window is unset
_check_and_finish_norearm(i) ==
    /\ i \in DueTimers
    /\ timers[i].cb = "check"
    /\ IF main_window # NoWindow
       THEN /\ _do_finish(main_window)
            /\ UNCHANGED lastDoFinish
            /\ pollDoFinish' = pollDoFinish + 1
            /\ timers' = RemoveAt(timers, i)
       ELSE /\ timers' = RemoveAt(timers, i)
            /\ UNCHANGED <<splash, transitions, transitionAt,
                           pollDoFinish, lastDoFinish>>
    /\ UNCHANGED <<start_time, main_window, _finish_scheduled, now, pc,
                   showCalls, finishCalls, closeFirst, finishVisible,
                   closedByClose>>

\* variant of _check_and_finish with the test on main_window inverted
_check_and_finish_inverted(i) ==
    /\ i \in DueTimers
    /\ timers[i].cb = "check"
    /\ IF main_window = NoWindow
       THEN /\ _do_finish(main_window)
            /\ UNCHANGED lastDoFinish
            /\ pollDoFinish' = pollDoFinish + 1
            /\ timers' = RemoveAt(timers, i)
       ELSE /\ timers' = Append(RemoveAt(timers, i), CheckTimer(poll_delay))
            /\ UNCHANGED <<splash, transitions, transitionAt,
                           pollDoFinish, lastDoFinish>>
    /\ UNCHANGED <<start_time, main_window, _finish_scheduled, now, pc,
                   showCalls, finishCalls, closeFirst, finishVisible,
                   closedByClose>>

\* variant of _check_and_finish that re-arms the poll on both branches
_check_and_finish_always_rearm(i) ==
    /\ i \in DueTimers
    /\ timers[i].cb = "check"
    /\ IF main_window # NoWindow
       THEN /\ _do_finish(main_window)
            /\ UNCHANGED lastDoFinish
            /\ pollDoFinish' = pollDoFinish + 1
       ELSE UNCHANGED <<splash, transitions, transitionAt,
                        pollDoFinish, lastDoFinish>>
    /\ timers' = Append(RemoveAt(timers, i), CheckTimer(poll_delay))
    /\ UNCHANGED <<start_time, main_window, _finish_scheduled, now, pc,
                   showCalls, finishCalls, closeFirst, finishVisible,
                   closedByClose>>

\* _check_and_finish(), as the callback of timer i
_check_and_finish(i) ==
    /\ i \in DueTimers
    /\ timers[i].cb = "check"
    /\ IF main_window # NoWindow
       THEN /\ _do_finish(main_window)
            /\ UNCHANGED lastDoFinish
            /\ pollDoFinish' = pollDoFinish + 1
            /\ timers' = RemoveAt(timers, i)
       ELSE /\ timers' = Append(RemoveAt(timers, i), CheckTimer(poll_delay))
            /\ UNCHANGED <<splash, transitions, transitionAt,
                           pollDoFinish, lastDoFinish>>
    /\ UNCHANGED <<start_time, main_window, _finish_scheduled, now, pc,
                   showCalls, finishCalls, closeFirst, finishVisible,
                   closedByClose>>

\* the callback lambda: self._do_finish(main_window) of timer i
finish_lambda(i) ==
    /\ i \in DueTimers
    /\ timers[i].cb = "lambda"
    /\ _do_finish(timers[i].w)
    /\ lastDoFinish' = [e |-> timers[i].e, ran |-> msecsTo(timers[i].st, now)]
    /\ timers' = RemoveAt(timers, i)
    /\ UNCHANGED <<start_time, main_window, _finish_scheduled, now, pc,
                   showCalls, finishCalls, closeFirst, finishVisible,
                   closedByClose, pollDoFinish>>

\* variant of close that also cancels the pending timers
close_cancels_timers ==
    /\ pc = "idle"
    /\ IF splash_exists /\ isVisible
       THEN /\ splash' = "hidden"
            /\ closedByClose' = closedByClose + 1
            /\ timers' = <<>>
       ELSE UNCHANGED <<splash, closedByClose, timers>>
    /\ closeFirst' = (closeFirst \/ (showCalls >= 1 /\ finishCalls = 0))
    /\ UNCHANGED <<start_time, main_window, _finish_scheduled, now, pc,
                   showCalls, finishCalls, finishVisible, transitions,
                   transitionAt, pollDoFinish, lastDoFinish>>

\* variant of close without the isVisible() guard
close_unguarded ==
    /\ pc = "idle"
    /\ IF splash_exists
       THEN /\ splash' = "hidden"
            /\ closedByClose' = closedByClose + 1
       ELSE UNCHANGED <<splash, closedByClose>>
    /\ closeFirst' = (closeFirst \/ (showCalls >= 1 /\ finishCalls = 0))
    /\ UNCHANGED <<start_time, main_window, _finish_scheduled, timers, now, pc,
                   showCalls, finishCalls, finishVisible, transitions,
                   transitionAt, pollDoFinish, lastDoFinish>>

\* close()
close ==
    /\ pc = "idle"
    /\ IF splash_exists /\ isVisible
       THEN /\ splash' = "hidden"
            /\ closedByClose' = closedByClose + 1
       ELSE UNCHANGED <<splash, closedByClose>>
    /\ closeFirst' = (closeFirst \/ (showCalls >= 1 /\ finishCalls = 0))
    /\ UNCHANGED <<start_time, main_window, _finish_scheduled, timers, now, pc,
                   showCalls, finishCalls, finishVisible, transitions,
                   transitionAt, pollDoFinish, lastDoFinish>>

\* variant of finish that marks the finish only once start_time is known
finish_flag_late(w) ==
    /\ pc = "idle"
    /\ finishCalls < MaxFinishCalls
    /\ finishCalls' = finishCalls + 1
    /\ IF ~splash_exists
       THEN UNCHANGED <<_finish_scheduled, timers, finishVisible, splash,
                        transitions, transitionAt, lastDoFinish>>
       ELSE /\ finishVisible' = (finishVisible \/ isVisible)
            /\ IF start_time # None
               THEN /\ _finish_scheduled' = "True"
                    /\ IF remaining(msecsTo(start_time, now)) > 0
                       THEN /\ timers' = Append(timers,
                                   LambdaTimer(remaining(msecsTo(start_time, now)), w))
                            /\ UNCHANGED <<splash, transitions, transitionAt,
                                           lastDoFinish>>
                       ELSE /\ _do_finish(w)
                            /\ lastDoFinish' = [e |-> msecsTo(start_time, now),
                                                ran |-> msecsTo(start_time, now)]
                            /\ UNCHANGED timers
               ELSE UNCHANGED <<_finish_scheduled, timers, splash, transitions,
                                transitionAt, lastDoFinish>>
    /\ UNCHANGED <<start_time, main_window, now, pc, showCalls,
                   closeFirst, closedByClose, pollDoFinish>>

\* variant of finish without the early return on an absent surface
finish_no_return(w) ==
    /\ pc = "idle"
    /\ finishCalls < MaxFinishCalls
    /\ finishCalls' = finishCalls + 1
    /\ _finish_scheduled' = "True"
    /\ finishVisible' = (finishVisible \/ isVisible)
    /\ IF start_time # None
       THEN IF remaining(msecsTo(start_time, now)) > 0
            THEN /\ timers' = Append(timers,
                        LambdaTimer(remaining(msecsTo(start_time, now)), w))
                 /\ UNCHANGED <<splash, transitions, transitionAt,
                                lastDoFinish>>
            ELSE /\ _do_finish(w)
                 /\ lastDoFinish' = [e |-> msecsTo(start_time, now),
                                     ran |-> msecsTo(start_time, now)]
                 /\ UNCHANGED timers
       ELSE UNCHANGED <<timers, splash, transitions, transitionAt,
                        lastDoFinish>>
    /\ UNCHANGED <<start_time, main_window, now, pc, showCalls,
                   closeFirst, closedByClose, pollDoFinish>>

\* finish(main_window)
finish(w) ==
    /\ pc = "idle"
    /\ finishCalls < MaxFinishCalls
    /\ finishCalls' = finishCalls + 1
    /\ IF ~splash_exists
       THEN UNCHANGED <<_finish_scheduled, timers, finishVisible, splash,
                        transitions, transitionAt, lastDoFinish>>
       ELSE /\ _finish_scheduled' = "True"
            /\ finishVisible' = (finishVisible \/ isVisible)
            /\ IF start_time # None
               THEN IF remaining(msecsTo(start_time, now)) > 0
                    THEN /\ timers' = Append(timers,
                                LambdaTimer(remaining(msecsTo(start_time, now)), w))
                         /\ UNCHANGED <<splash, transitions, transitionAt,
                                        lastDoFinish>>
                    ELSE /\ _do_finish(w)
                         /\ lastDoFinish' = [e |-> msecsTo(start_time, now),
                                             ran |-> msecsTo(start_time, now)]
                         /\ UNCHANGED timers
               ELSE UNCHANGED <<timers, splash, transitions, transitionAt,
                                lastDoFinish>>
    /\ UNCHANGED <<start_time, main_window, now, pc, showCalls,
                   closeFirst, closedByClose, pollDoFinish>>

\* the host's assignment splash_manager.main_window = w
set_main_window(w) ==
    /\ pc = "idle"
    /\ now + poll_delay <= MaxTime
    /\ main_window # w
    /\ main_window' = w
    /\ UNCHANGED <<splash, start_time, _finish_scheduled, timers, now, pc>>
    /\ UNCHANGED hist

\* the clock advances, up to the next pending timer
Tick ==
    /\ pc = "idle"
    /\ now < MaxTime
    /\ DueTimers = {}
    /\ \E t \in (now + 1)..Min(now + TickStep, MaxTime) :
          /\ NextDue(t)
          /\ (t = Min(now + TickStep, MaxTime) \/ \E i \in 1..Len(timers) : timers[i].due = t)
          /\ now' = t
    /\ UNCHANGED <<splash, start_time, main_window, _finish_scheduled, timers, pc>>
    /\ UNCHANGED hist

\* the clock at the end of its range: time still passes and the delay of the
\* earliest pending timer runs out, while the reading stays at MaxTime.  Every
\* show() is at least min_splash_time + poll_delay before MaxTime, so an
\* elapsed time measured there is past min_splash_time in either reading.
TickBeyond ==
    /\ pc = "idle"
    /\ now = MaxTime
    /\ timers # <<>>
    /\ DueTimers = {}
    /\ \E j \in 1..Len(timers) :
          /\ NextDue(timers[j].due)
          /\ timers' = [i \in 1..Len(timers) |->
                          [timers[i] EXCEPT !.due = @ - (timers[j].due - now)]]
    /\ UNCHANGED <<splash, start_time, main_window, _finish_scheduled, now, pc>>
    /\ UNCHANGED hist

FireTimer == \E i \in 1..Len(timers) : _check_and_finish(i) \/ finish_lambda(i)

Next ==
    \/ show_begin
    \/ show_end
    \/ \E i \in 1..Len(timers) : _check_and_finish(i)
    \/ \E i \in 1..Len(timers) : finish_lambda(i)
    \/ close
    \/ \E w \in Windows : finish(w)
    \/ \E w \in Windows : set_main_window(w)
    \/ Tick
    \/ TickBeyond

Spec == Init /\ [][Next]_vars

\* a presenter whose surface was or was not created: self.splash is None
\* until _create_splash_screen() sets it
InitAnySurface ==
    /\ splash \in {"hidden", "none"}
    /\ start_time = None
    /\ main_window = NoWindow
    /\ _finish_scheduled = "absent"
    /\ timers = <<>>
    /\ now = StartClock
    /\ pc = "idle"
    /\ showCalls = 0
    /\ finishCalls = 0
    /\ closeFirst = FALSE
    /\ finishVisible = FALSE
    /\ closedByClose = 0
    /\ transitions = 0
    /\ transitionAt = None
    /\ pollDoFinish = 0
    /\ lastDoFinish = NoDoFinish

SpecAnySurface == InitAnySurface /\ [][Next]_vars

\* timers fire when due and the clock runs: the Qt event loop
LiveSpec ==
    Spec /\ WF_vars(Tick) /\ WF_vars(TickBeyond) /\ WF_vars(FireTimer) /\ WF_vars(show_end)

TypeOK ==
    /\ splash \in {"none", "hidden", "visible"}
    /\ start_time \in {None} \cup 0..MaxTime
    /\ main_window \in Windows \cup {NoWindow}
    /\ _finish_scheduled \in {"absent", "True"}
    /\ now \in 0..MaxTime
    /\ pc \in {"idle", "show_events"}
    /\ \A i \in 1..Len(timers) : timers[i].cb \in {"check", "lambda"}

\* ---- vocabulary of the properties ----
PendingChecks == {i \in 1..Len(timers) : timers[i].cb = "check"}
PendingLambdas == {i \in 1..Len(timers) : timers[i].cb = "lambda"}
\* number of show() calls that have returned
CompletedShows == IF pc = "show_events" THEN showCalls - 1 ELSE showCalls
\* a _do_finish triggered by a finish() call has executed
FinishRan == lastDoFinish # NoDoFinish
\* this step is the firing of a _check_and_finish timer: a due check timer is gone
CheckFired ==
    /\ now' = now
    /\ Cardinality({i \in 1..Len(timers') : timers'[i].cb = "check" /\ timers'[i].due <= now})
         < Cardinality({i \in PendingChecks : timers[i].due <= now})

\* C1: after a single show(), the splash-to-main-window transition never takes
\* place earlier than min_splash_time after the time recorded by show().
C1_TransitionAfterMinTime ==
    (showCalls <= 1 /\ transitions > 0) =>
        /\ start_time # None
        /\ msecsTo(start_time, transitionAt) >= min_splash_time

C1_Witness ==
    /\ showCalls = 1 /\ transitions = 1 /\ finishCalls >= 1 /\ FinishRan
    /\ lastDoFinish.e < min_splash_time
    /\ msecsTo(start_time, transitionAt) = min_splash_time

\* C2: after a single show(), the surface is closed at most once, by close() or
\* by the finish sequence (_do_finish), never by both.
C2_ClosedOnce ==
    showCalls <= 1 =>
        /\ closedByClose + transitions <= 1
        /\ (closedByClose + transitions = 1 => ~isVisible)

C2_Witness ==
    /\ showCalls = 1 /\ closedByClose = 1 /\ transitions = 0
    /\ FinishRan /\ pollDoFinish = 1

\* C3: a _do_finish triggered by finish(w) called at elapsed time e after show()
\* executes at elapsed time max(e, min_splash_time): deferred by exactly
\* min_splash_time - e when e < min_splash_time, immediate otherwise.
C3_DoFinishAtMax ==
    FinishRan => lastDoFinish.ran = Max(lastDoFinish.e, min_splash_time)

C3_Witness ==
    /\ lastDoFinish = [e |-> 500, ran |-> 2000]
    /\ transitions = 1 /\ transitionAt = start_time + 2000

\* C4: whenever is_finish_scheduled() returns true, a _do_finish has already
\* executed or is pending, because every finish(w) on an existing surface
\* schedules _do_finish or calls it.
C4_ScheduledMeansDoFinish ==
    is_finish_scheduled =>
        \/ FinishRan
        \/ PendingLambdas # {}

\* C5: is_finish_scheduled() is false before the first finish() call, true
\* after any finish() call, and never returns to false.
C5_FlagFollowsFinish ==
    /\ [](is_finish_scheduled <=> finishCalls > 0)
    /\ [][is_finish_scheduled => is_finish_scheduled']_vars

C5_Witness ==
    /\ is_finish_scheduled /\ finishCalls = 1 /\ showCalls = 1
    /\ PendingLambdas # {} /\ ~FinishRan /\ closedByClose = 1

\* C6: once close() has been called after show() and before any finish(), the
\* surface stays non-visible, and no later finish(w) or _do_finish makes it
\* visible or performs the transition.
C6_CloseFirstIsFinal ==
    /\ []((closeFirst /\ showCalls <= 1) => ~isVisible)
    /\ [][(closeFirst /\ ~isVisible /\ showCalls' = showCalls)
            => (~isVisible' /\ transitions' = transitions)]_vars

C6_Witness ==
    /\ closeFirst /\ showCalls = 1 /\ transitions = 0 /\ ~isVisible
    /\ finishCalls >= 1 /\ FinishRan /\ pollDoFinish = 1

\* C7: a _check_and_finish that fires with main_window unset reschedules itself
\* poll_delay later and does nothing else; one that fires with main_window set
\* calls _do_finish once and schedules no further poll; each show()'s poll
\* chain is either still pending as one timer or has called _do_finish once.
C7_PollChain ==
    /\ [](Cardinality(PendingChecks) + pollDoFinish = CompletedShows)
    /\ [][CheckFired =>
            IF main_window = NoWindow
            THEN /\ \E i \in PendingChecks :
                      /\ timers[i].due <= now
                      /\ timers' = Append(RemoveAt(timers, i),
                                     [timers[i] EXCEPT !.due = now + poll_delay])
                 /\ UNCHANGED <<splash, start_time, main_window, _finish_scheduled,
                                now, pc>>
                 /\ UNCHANGED hist
            ELSE /\ pollDoFinish' = pollDoFinish + 1
                 /\ \E i \in PendingChecks : timers' = RemoveAt(timers, i)
                 /\ ~isVisible'
                 /\ transitions' = transitions + (IF isVisible THEN 1 ELSE 0)]_vars

C7_Witness ==
    /\ showCalls = 1 /\ pollDoFinish = 1 /\ PendingChecks = {}
    /\ finishCalls = 0 /\ transitions = 1
    /\ transitionAt = start_time + min_splash_time + 2 * poll_delay

\* C8: after show(), once the main window is ready (finish(w) called while the
\* surface is visible, or main_window assigned), the surface is eventually
\* finished to the main window unless close() closes it first.
C8_Ready == showCalls >= 1 /\ (main_window # NoWindow \/ finishVisible)

C8_HandOff == C8_Ready ~> (transitions > 0 \/ closedByClose > 0)

C8_Witness ==
    /\ showCalls = 1 /\ finishVisible /\ main_window = NoWindow
    /\ closedByClose = 0 /\ transitions = 1

\* C9: when the timer set by show() fires, min_splash_time after show(), a
\* surface that is still visible is closed at that moment.
C9_HardTimerCloses ==
    [][(CheckFired /\ showCalls = 1 /\ isVisible
          /\ now = start_time + min_splash_time) => ~isVisible']_vars

\* C10: at most one deferred _do_finish callback is pending at any time.
C10_OneDeferredDoFinish == Cardinality(PendingLambdas) <= 1

\* the surface has been shown and then closed, by close() or by the transition
SurfaceClosed == ~isVisible /\ closedByClose + transitions > 0

\* C11: close() cancels no timer, and a timer callback that fires after the
\* surface has been closed leaves the surface's visibility, start_time, the
\* finish-scheduled flag and main_window unchanged and performs no transition.
C11_StrayTimersAreNoOps ==
    /\ [][close => timers' = timers]_vars
    /\ [][(FireTimer /\ SurfaceClosed) =>
            /\ UNCHANGED <<splash, start_time, _finish_scheduled, main_window>>
            /\ UNCHANGED <<transitions, transitionAt>>
            /\ Len(timers') <= Len(timers)]_vars

C11_Witness ==
    /\ showCalls = 1 /\ closedByClose = 1 /\ transitions = 0 /\ ~isVisible
    /\ finishCalls = 2 /\ FinishRan /\ PendingLambdas = {}
    /\ main_window = NoWindow /\ PendingChecks # {}
    /\ now >= start_time + min_splash_time + poll_delay

\* C12: once the surface has been closed, the set of pending timer callbacks
\* eventually becomes empty.
C12_Quiescence == SurfaceClosed ~> (timers = <<>>)

\* C12, amended: once the surface has been closed and main_window has been
\* assigned, the set of pending timer callbacks eventually becomes empty.
C12_QuiescenceOnceAssigned ==
    (SurfaceClosed /\ main_window # NoWindow) ~> (timers = <<>>)

C12_Witness ==
    /\ showCalls = 1 /\ closedByClose = 1 /\ ~isVisible /\ main_window # NoWindow
    /\ pollDoFinish = 1 /\ FinishRan /\ timers = <<>>

\* C13: close() closes a visible surface and does nothing to one that is not
\* visible, so a second close() changes nothing; it never changes start_time,
\* the finish-scheduled flag, main_window or the pending timers.
C13_CloseIdempotent ==
    [][close =>
         /\ UNCHANGED <<start_time, _finish_scheduled, main_window, timers, now, pc>>
         /\ UNCHANGED <<transitions, transitionAt>>
         /\ ~isVisible'
         /\ (isVisible => closedByClose' = closedByClose + 1)
         /\ (~isVisible => splash' = splash /\ closedByClose' = closedByClose)]_vars

C13_Witness ==
    /\ showCalls = 1 /\ closeFirst /\ closedByClose = 0 /\ transitions = 1
    /\ ~isVisible /\ finishCalls = 0

\* C14: when the surface was never created, show() and finish(w) are no-ops:
\* no timer is scheduled, start_time stays unset, is_finish_scheduled() stays
\* false, and nothing is shown, closed or finished.
C14_AbsentSurfaceNoOps ==
    ~splash_exists =>
        /\ timers = <<>>
        /\ start_time = None
        /\ ~is_finish_scheduled
        /\ pc = "idle"
        /\ transitions = 0 /\ closedByClose = 0 /\ ~FinishRan

C14_Witness ==
    /\ ~splash_exists /\ showCalls = 1 /\ finishCalls = 2
    /\ main_window # NoWindow /\ now = MaxTime
====
